---- MODULE Spec2Model ----
(***************************************************************************)
(* Harmonic mesh motion (meshmux tutorials).                               *)
(*                                                                         *)
(* tutorials/0_fundamental_deformation/0_fundamentals.py is the procedure  *)
(* itself, written out step by step: snapshot the node coordinates, build  *)
(* one Dirichlet condition per boundary marker, solve Laplace's equation,  *)
(* add the solution to the node coordinates, restore the snapshot.         *)
(* tutorials/1_harmonic_mesh_deformation/harmonic_mesh_motion.py calls the *)
(* same procedure through the scope `with HarmonicMeshMotion(...)`, whose  *)
(* class body (meshmux/mesh_motion_classes.py) is not part of the sources: *)
(* what the scope adds to the procedure (the two flags and the lifecycle   *)
(* of a context object) follows the written specification.                 *)
(*                                                                         *)
(* The mesh is a chain of NNodes nodes on a line (P1 elements between      *)
(* neighbours, geometric dimension 1); its two end nodes are the boundary  *)
(* facets and carry the markers MarkerLeft and MarkerRight.  Coordinates   *)
(* and displacements are integers; the reference meshes and the            *)
(* displacement functions are chosen so that every harmonic extension the  *)
(* model reaches is an integer field (SolveIsExact checks it).             *)
(***************************************************************************)
EXTENDS Integers, Sequences, FiniteSets

VARIABLES x, ctx, last, log

vars == <<x, ctx, last, log>>

----------------------------------------------------------------------------
(* Bounds of the model *)

\* number of mesh nodes
NNodes == 3

Nodes == 1..NNodes

\* the scopes of a run
Contexts == {"A", "B"}

\* every prescribed boundary value is a multiple of Unit, so that the linear
\* interpolant between the two ends is an integer at every node
Unit == NNodes - 1

----------------------------------------------------------------------------
(* The mesh and its boundary tags *)

\* boundary markers of the tutorial mesh: 1 (bottom), 9 (top)
MarkerLeft == 1

MarkerRight == 9

\* a marker no facet of the mesh carries
MarkerAbsent == 7

\* mesh, subdomains, boundaries = read_from_msh(...): the meshtags object
\* `boundaries` maps each boundary facet (here: an end node) to its marker
boundaries == [n \in {1, NNodes} |-> IF n = 1 THEN MarkerLeft ELSE MarkerRight]

\* the reference meshes a run may start from: uniform chains
ReferenceMeshes == { [n \in Nodes |-> (n - 1) * k * Unit] : k \in 1..2 }

\* boundaries.find(marker): the facets carrying the marker (empty when none does)
Find(marker) == { n \in DOMAIN boundaries : boundaries[n] = marker }

\* locate_dofs_topological(V, gdim-1, facets): for P1 the dof of a vertex facet
\* is the node itself
LocateDofsTopological(facets) == facets

----------------------------------------------------------------------------
(* Displacement functions *)

\* deformation form (tutorial 1, lines 37-48) and absolute-coordinate form
\* (lines 106-117); the sine amplitudes 0.2 and 0.1 are the integers 2*Unit
\* and Unit
DisplacementFunctions ==
    {"bc_bottom", "bc_top", "bc_side", "bc_bottom_abs", "bc_top_abs", "bc_side_abs"}

Eval(f, p) ==
    CASE f = "bc_bottom"     -> 2 * Unit
      [] f = "bc_top"        -> Unit
      [] f = "bc_side"       -> 0
      [] f = "bc_bottom_abs" -> p + 2 * Unit
      [] f = "bc_top_abs"    -> p + Unit
      [] f = "bc_side_abs"   -> p

\* bc_func.interpolate(f): f evaluated at the current coordinates of every node
Interpolate(f, coords) == [n \in Nodes |-> Eval(f, coords[n])]

----------------------------------------------------------------------------
(* Inputs of a `with HarmonicMeshMotion(mesh, boundaries, marker_list,     *)
(* displacement_function_list, reset_reference, is_deformation)` statement *)

\* the boundary-condition sets a scope may be given, as (marker_list,
\* displacement_function_list); markers are unique per call
BoundaryConditionSets ==
    { \* both boundaries, displacement functions
      << <<MarkerLeft, MarkerRight>>, <<"bc_bottom", "bc_side">> >>,
      \* both boundaries, absolute target coordinates
      << <<MarkerRight, MarkerLeft>>, <<"bc_side_abs", "bc_bottom_abs">> >>,
      \* the right boundary is not listed
      << <<MarkerLeft>>, <<"bc_bottom">> >>,
      \* more markers than functions
      << <<MarkerLeft, MarkerRight>>, <<"bc_bottom">> >>,
      \* more functions than markers
      << <<MarkerLeft>>, <<"bc_bottom", "bc_side">> >>,
      \* a marker no facet carries
      << <<MarkerLeft, MarkerAbsent>>, <<"bc_bottom", "bc_side">> >>,
      \* no marker at all
      << <<>>, <<>> >> }

----------------------------------------------------------------------------
(* Boundary conditions: the loop `for i in range(len(bc_markers))` *)

\* the conditions put on the whole exterior boundary, whatever the marker
BcDofsWholeBoundary(marker) == LocateDofsTopological(DOMAIN boundaries)

\* dofs = boundaries.find(bc_markers[i]);
\* bc_dofs = locate_dofs_topological(V, gdim-1, dofs)
BcDofs(marker) == LocateDofsTopological(Find(marker))

\* the loop reads bc_function_list[i] for every index of bc_markers: it raises
\* IndexError exactly when the function list is the shorter one, and never looks
\* at functions beyond the last marker
RaisesIndexError(marker_list, function_list) == Len(marker_list) > Len(function_list)

\* bc_list after the loop: one dirichletbc(bc_func, bc_dofs) per marker, in order
BcList(marker_list, function_list, coords) ==
    [i \in 1..Len(marker_list) |->
        [dofs |-> BcDofs(marker_list[i]),
         g    |-> Interpolate(function_list[i], coords)]]

\* the dofs some Dirichlet condition of the list constrains
Constrained(bc_list) == UNION { bc_list[i].dofs : i \in DOMAIN bc_list }

\* set_bc applies the conditions in list order: the last one naming a dof wins
BcValue(bc_list, n) ==
    LET I == { i \in DOMAIN bc_list : n \in bc_list[i].dofs }
        k == CHOOSE i \in I : \A j \in I : j <= i
    IN  bc_list[k].g[n]

----------------------------------------------------------------------------
(* The Laplace problem on the current mesh and its solution *)

Abs(a) == IF a < 0 THEN -a ELSE a

\* length of the element between nodes n and n+1 (|det J| of the P1 interval)
H(coords, n) == Abs(coords[n + 1] - coords[n])

\* an element of zero length: the stiffness entries 1/h are not finite
Degenerate(coords) == \E n \in 1..(NNodes - 1) : H(coords, n) = 0

\* A = assemble_matrix(a_form, bcs); apply_lifting; set_bc: u solves the system
\* when every constrained row gives the prescribed value and every free row the
\* P1 stiffness equation sum_e (u_n - u_m)/h_e = 0 (here multiplied by the
\* element lengths); a free end node has the zero-Neumann row u_n = u_neighbour
IsSolution(u, coords, bc_list) ==
    \A n \in Nodes :
        IF n \in Constrained(bc_list) THEN u[n] = BcValue(bc_list, n)
        ELSE IF n = 1 THEN u[1] = u[2]
        ELSE IF n = NNodes THEN u[NNodes] = u[NNodes - 1]
        ELSE (u[n] - u[n - 1]) * H(coords, n) + (u[n] - u[n + 1]) * H(coords, n - 1) = 0

\* the matrix is singular when no dof is constrained (pure Neumann problem) or
\* when its entries are not finite
Singular(coords, bc_list) == Constrained(bc_list) = {} \/ Degenerate(coords)

RECURSIVE ArcLength(_, _)
ArcLength(coords, n) == IF n = 1 THEN 0 ELSE ArcLength(coords, n - 1) + H(coords, n - 1)

\* ksp.solve(F, uh.vector) with preonly + LU on a regular system: the unique
\* solution, which on a chain is the linear interpolant (in arc length) of the
\* end values, or the constant extension of the one constrained end
Solution(coords, bc_list) ==
    LET D  == Constrained(bc_list)
        g1 == BcValue(bc_list, 1)
        gN == BcValue(bc_list, NNodes)
    IN  [n \in Nodes |->
            IF 1 \in D /\ NNodes \in D
            THEN g1 + ((gN - g1) * ArcLength(coords, n)) \div ArcLength(coords, NNodes)
            ELSE IF 1 \in D THEN g1 ELSE gN]

\* what ksp.solve leaves in uh when the factorisation of a singular matrix
\* fails and no error is raised: not a solution of the problem.  The code never
\* reads ksp.getConvergedReason(), so the vector is used like any other.
GarbageFields == { [n \in Nodes |-> v] : v \in {0, Unit} }

----------------------------------------------------------------------------
(* Coordinates: snapshot, move, restore *)

\* reference_coordinates = mesh.geometry.x.copy()
Snapshot(coords) == coords

\* the displacement written over the coordinates instead of added to them
DisplaceOverwrite(coords, uh) == uh

\* the displacement applied with the wrong sign
DisplaceSubtract(coords, uh) == [n \in Nodes |-> coords[n] - uh[n]]

\* mesh.geometry.x[:, :gdim] += uh.x.array.reshape(...)
Displace(coords, uh) == [n \in Nodes |-> coords[n] + uh[n]]

\* is_deformation = False: the solved field is the new coordinate field
Replace(coords, uh) == uh

Move(coords, uh, is_deformation) ==
    IF is_deformation THEN Displace(coords, uh) ELSE Replace(coords, uh)

\* no restore at all
RestoreNothing(coords, reference_coordinates) == coords

\* a restore that misses the last node
RestoreAllButLast(coords, reference_coordinates) ==
    [n \in Nodes |-> IF n = NNodes THEN coords[n] ELSE reference_coordinates[n]]

\* mesh.geometry.x[:] = reference_coordinates
Restore(coords, reference_coordinates) == reference_coordinates

----------------------------------------------------------------------------
(* State *)

\* x    mesh.geometry.x, the node coordinates of the one mesh
\* ctx  the context objects: lifecycle state, the two flags, the snapshot
\*      taken at entry and the field solved at entry
\* last the most recent call on a context as its caller sees it: the arguments,
\*      the coordinates before the call (pre), the Dirichlet conditions built,
\*      the solver's converged reason and the exception that reached the caller
\* log  the scopes entered and exited so far, in order

Args ==
    { [marker_list |-> bcs[1], function_list |-> bcs[2],
       reset_reference |-> rr, is_deformation |-> isd] :
         bcs \in BoundaryConditionSets, rr \in BOOLEAN, isd \in BOOLEAN }

NoArgs ==
    [marker_list |-> <<>>, function_list |-> <<>>,
     reset_reference |-> FALSE, is_deformation |-> FALSE]

NewContext ==
    [state |-> "Reference", reset_reference |-> FALSE, is_deformation |-> FALSE,
     reference_coordinates |-> <<>>, uh |-> <<>>]

Call(op, c, a, pre, bc_list, ksp_reason, outcome) ==
    [op |-> op, ctx |-> c, args |-> a, pre |-> pre, bc_list |-> bc_list,
     ksp_reason |-> ksp_reason, outcome |-> outcome]

Init ==
    /\ x \in ReferenceMeshes
    /\ ctx = [c \in Contexts |-> NewContext]
    /\ last = Call("none", "A", NoArgs, x, <<>>, "none", "ok")
    /\ log = <<>>

----------------------------------------------------------------------------
(* Entry *)

\* a context with no lifecycle check: entered again, it takes a new snapshot
EnterAgain(c) ==
    /\ ctx[c].state # "Reference"
    /\ ctx' = [ctx EXCEPT ![c].state = "Deformed",
                          ![c].reference_coordinates = Snapshot(x)]
    /\ last' = Call("enter", c, NoArgs, x, <<>>, "none", "ok")
    /\ UNCHANGED <<x, log>>

\* entering again a context object that is active or has been exited (its
\* arguments were given when it was constructed): a state error, and nothing is
\* touched
EnterStateError(c) ==
    /\ ctx[c].state # "Reference"
    /\ last' = Call("enter", c, NoArgs, x, <<>>, "none", "StateError")
    /\ UNCHANGED <<x, ctx, log>>

\* the loop over the markers runs out of functions: the error leaves the
\* `with` statement, whose context object was never active
EnterIndexError(c, a) ==
    /\ ctx[c].state = "Reference"
    /\ RaisesIndexError(a.marker_list, a.function_list)
    /\ last' = Call("enter", c, a, x, <<>>, "none", "IndexError")
    /\ UNCHANGED <<x, ctx, log>>

\* the context is active: flags, snapshot and solved field stored, coordinates moved
Deform(c, a, reference_coordinates, uh) ==
    /\ x' = Move(x, uh, a.is_deformation)
    /\ ctx' = [ctx EXCEPT ![c] =
                 [state |-> "Deformed", reset_reference |-> a.reset_reference,
                  is_deformation |-> a.is_deformation,
                  reference_coordinates |-> reference_coordinates, uh |-> uh]]
    /\ log' = Append(log, <<"enter", c>>)

\* snapshot, boundary conditions, solve of a regular system, coordinates moved
EnterConverged(c, a) ==
    /\ ctx[c].state = "Reference"
    /\ ~RaisesIndexError(a.marker_list, a.function_list)
    /\ LET reference_coordinates == Snapshot(x)
           bc_list == BcList(a.marker_list, a.function_list, x)
       IN  /\ ~Singular(x, bc_list)
           /\ Deform(c, a, reference_coordinates, Solution(x, bc_list))
           /\ last' = Call("enter", c, a, x, bc_list, "converged", "ok")

\* singular system, the solver returns without raising: the vector it leaves in
\* uh is added to the coordinates like a solution
EnterDiverged(c, a, garbage) ==
    /\ ctx[c].state = "Reference"
    /\ ~RaisesIndexError(a.marker_list, a.function_list)
    /\ LET reference_coordinates == Snapshot(x)
           bc_list == BcList(a.marker_list, a.function_list, x)
       IN  /\ Singular(x, bc_list)
           /\ Deform(c, a, reference_coordinates, garbage)
           /\ last' = Call("enter", c, a, x, bc_list, "diverged", "ok")

\* singular system, the solver raises (PETSc.Error out of ksp.solve): the
\* statement after the solve is not reached
EnterSolveError(c, a) ==
    /\ ctx[c].state = "Reference"
    /\ ~RaisesIndexError(a.marker_list, a.function_list)
    /\ LET bc_list == BcList(a.marker_list, a.function_list, x)
       IN  /\ Singular(x, bc_list)
           /\ last' = Call("enter", c, a, x, bc_list, "diverged", "SolveError")
    /\ UNCHANGED <<x, ctx, log>>

----------------------------------------------------------------------------
(* Exit *)

\* the scope is left, by the end of its body or by an error raised in it: the
\* snapshot is restored when reset_reference is set, and the error goes on to
\* the caller
Exit(c, body_raised) ==
    /\ ctx[c].state = "Deformed"
    /\ x' = IF ctx[c].reset_reference
            THEN Restore(x, ctx[c].reference_coordinates)
            ELSE x
    /\ ctx' = [ctx EXCEPT ![c].state = "Exited"]
    /\ log' = Append(log, <<"exit", c>>)
    /\ last' = Call("exit", c, NoArgs, x, <<>>, "none",
                    IF body_raised THEN "BodyError" ELSE "ok")

----------------------------------------------------------------------------

Next ==
    \/ \E c \in Contexts : EnterStateError(c)
    \/ \E c \in Contexts, a \in Args : EnterIndexError(c, a)
    \/ \E c \in Contexts, a \in Args : EnterConverged(c, a)
    \/ \E c \in Contexts, a \in Args, garbage \in GarbageFields : EnterDiverged(c, a, garbage)
    \/ \E c \in Contexts, a \in Args : EnterSolveError(c, a)
    \/ \E c \in Contexts, body_raised \in BOOLEAN : Exit(c, body_raised)

Spec == Init /\ [][Next]_vars

----------------------------------------------------------------------------
(* Sanity of the model *)

TypeOK ==
    /\ x \in [Nodes -> Int]
    /\ \A c \in Contexts :
          /\ ctx[c].state \in {"Reference", "Deformed", "Exited"}
          /\ ctx[c].state # "Reference" =>
                /\ ctx[c].reference_coordinates \in [Nodes -> Int]
                /\ ctx[c].uh \in [Nodes -> Int]
    /\ last.op \in {"none", "enter", "exit"}
    /\ last.outcome \in {"ok", "StateError", "IndexError", "SolveError", "BodyError"}

\* the field a converged solve returned solves the assembled system exactly
SolveIsExact ==
    (last.op = "enter" /\ last.ksp_reason = "converged")
        => IsSolution(ctx[last.ctx].uh, last.pre, last.bc_list)

\* after a converged solve the constrained nodes carry the prescribed values
BoundaryExactWhenConverged ==
    (last.op = "enter" /\ last.ksp_reason = "converged")
        => \A i \in DOMAIN last.args.marker_list :
              \A n \in Find(last.args.marker_list[i]) :
                  x[n] = IF last.args.is_deformation
                         THEN last.pre[n] + Eval(last.args.function_list[i], last.pre[n])
                         ELSE Eval(last.args.function_list[i], last.pre[n])

----------------------------------------------------------------------------
(* Vocabulary of the properties *)

PlusField(u, v) == [n \in Nodes |-> u[n] + v[n]]

ZeroField == [n \in Nodes |-> 0]

Range(seq) == { seq[i] : i \in DOMAIN seq }

\* the log ends with the events of tail
LogEndsWith(tail) ==
    /\ Len(log) >= Len(tail)
    /\ SubSeq(log, Len(log) - Len(tail) + 1, Len(log)) = tail

\* the value the i-th displacement function of the last call takes at the
\* pre-call (snapshot) coordinate of node n
Prescribed(i, n) == Eval(last.args.function_list[i], last.pre[n])

\* scopes are left in the reverse order of their entry
RECURSIVE WellNested(_, _)
WellNested(events, stack) ==
    IF events = <<>> THEN TRUE
    ELSE LET e == Head(events)
         IN  IF e[1] = "enter" THEN WellNested(Tail(events), <<e[2]>> \o stack)
             ELSE /\ stack # <<>>
                  /\ Head(stack) = e[2]
                  /\ WellNested(Tail(events), Tail(stack))

\* the boundary nodes whose marker the last call did not list
UnlistedBoundaryNodes ==
    { n \in DOMAIN boundaries : boundaries[n] \notin Range(last.args.marker_list) }

Neighbour(n) == IF n = 1 THEN 2 ELSE n - 1

----------------------------------------------------------------------------
(* C1 *)

\* C1: once a scope entered with reset_reference=True has exited, by normal
\* completion of its body or by an error raised in it, the node coordinates
\* equal the snapshot the scope took at entry.
ResetRestoresSnapshot ==
    (last.op = "exit" /\ ctx[last.ctx].reset_reference)
        => x = ctx[last.ctx].reference_coordinates

\* a scope with reset_reference=True is left by an error in its body, and the
\* deformation it discards had moved the mesh
ResetAfterBodyError ==
    /\ last.op = "exit"
    /\ last.outcome = "BodyError"
    /\ ctx[last.ctx].reset_reference
    /\ last.pre # x

----------------------------------------------------------------------------
(* C2 *)

\* C2: a scope entered with reset_reference=False leaves the coordinates as
\* they were inside it, and they are the snapshot of the next scope: after scope
\* a (reset_reference=False, is_deformation=True) and the entry of scope b
\* (is_deformation=True) the coordinates are original + ua + ub.
SequentialScopesCompose ==
    /\ (last.op = "exit" /\ ~ctx[last.ctx].reset_reference) => x = last.pre
    /\ \A a, b \in Contexts :
          ( /\ LogEndsWith(<< <<"enter", a>>, <<"exit", a>>, <<"enter", b>> >>)
            /\ ~ctx[a].reset_reference
            /\ ctx[a].is_deformation )
          => /\ ctx[b].reference_coordinates
                    = PlusField(ctx[a].reference_coordinates, ctx[a].uh)
             /\ ctx[b].is_deformation
                    => x = PlusField(PlusField(ctx[a].reference_coordinates, ctx[a].uh),
                                     ctx[b].uh)

\* two deformations that both move the mesh, one after the other
SecondDeformationOnTopOfFirst ==
    \E a, b \in Contexts :
        /\ log = << <<"enter", a>>, <<"exit", a>>, <<"enter", b>> >>
        /\ ~ctx[a].reset_reference
        /\ ctx[a].is_deformation /\ ctx[b].is_deformation
        /\ ctx[a].uh # ZeroField /\ ctx[b].uh # ZeroField
        /\ last.ksp_reason = "converged"

----------------------------------------------------------------------------
(* C3 *)

\* C3: after entry, every node on a boundary tagged with a marker of marker_list,
\* paired positionally with displacement function f, has coordinate
\* x_ref + f(x_ref) when is_deformation=True and f(x_ref) when
\* is_deformation=False, x_ref being its coordinate in the snapshot.
BoundaryExactness ==
    (last.op = "enter" /\ last.outcome = "ok")
        => \A i \in DOMAIN last.args.marker_list :
              \A n \in Find(last.args.marker_list[i]) :
                  x[n] = IF last.args.is_deformation
                         THEN last.pre[n] + Prescribed(i, n)
                         ELSE Prescribed(i, n)

----------------------------------------------------------------------------
(* C4 *)

\* C4: if the elliptic solve fails during entry, the failure reaches the caller
\* and the node coordinates equal the pre-entry coordinates.
SolveFailurePropagates ==
    (last.op = "enter" /\ last.ksp_reason = "diverged")
        => (last.outcome = "SolveError" /\ x = last.pre)

----------------------------------------------------------------------------
(* C5 *)

\* C5: entry fails whenever marker_list and displacement_function_list have
\* different lengths, whichever is the longer, and the coordinates are unchanged.
LengthMismatchFails ==
    ( /\ last.op = "enter"
      /\ Len(last.args.marker_list) # Len(last.args.function_list) )
        => (last.outcome # "ok" /\ last.ksp_reason = "none" /\ x = last.pre)

----------------------------------------------------------------------------
(* C6 *)

\* C6: entry fails, without solving and without changing the coordinates,
\* whenever some marker of marker_list matches no boundary entity.
MissingMarkerFails ==
    ( /\ last.op = "enter"
      /\ \E i \in DOMAIN last.args.marker_list : Find(last.args.marker_list[i]) = {} )
        => (last.outcome # "ok" /\ last.ksp_reason = "none" /\ x = last.pre)

----------------------------------------------------------------------------
(* C7 *)

\* C7: a context object goes Reference -> Deformed -> Exited and no other way;
\* entering one that is active or has been exited fails with a state error and
\* changes neither the coordinates nor the stored snapshot.
LifecycleIsOneWay ==
    [][ \A c \in Contexts :
          /\ \/ ctx'[c].state = ctx[c].state
             \/ ctx[c].state = "Reference" /\ ctx'[c].state = "Deformed"
             \/ ctx[c].state = "Deformed" /\ ctx'[c].state = "Exited"
          /\ (ctx[c].state # "Reference" /\ last'.op = "enter" /\ last'.ctx = c)
                => /\ last'.outcome = "StateError"
                   /\ x' = x
                   /\ ctx'[c] = ctx[c] ]_vars

\* an exited context is entered again while the mesh is away from its snapshot
ReentryAfterExitRefused ==
    /\ last.op = "enter"
    /\ last.outcome = "StateError"
    /\ ctx[last.ctx].state = "Exited"
    /\ x # ctx[last.ctx].reference_coordinates

----------------------------------------------------------------------------
(* C8 *)

\* C8: scopes nest: the inner snapshot is the outer scope's deformed
\* coordinates and the inner deformation is applied on top of them; with
\* reset_reference=True in both, leaving the inner scope restores the outer
\* scope's deformed coordinates and leaving the outer one the original ones.
NestedScopesCompose ==
    \A a, b \in Contexts :
        /\ ( /\ LogEndsWith(<< <<"enter", a>>, <<"enter", b>> >>)
             /\ ctx[a].is_deformation )
           => /\ ctx[b].reference_coordinates
                     = PlusField(ctx[a].reference_coordinates, ctx[a].uh)
              /\ ctx[b].is_deformation
                     => x = PlusField(ctx[b].reference_coordinates, ctx[b].uh)
        /\ ( /\ LogEndsWith(<< <<"enter", a>>, <<"enter", b>>, <<"exit", b>> >>)
             /\ ctx[a].is_deformation
             /\ ctx[b].reset_reference )
           => x = PlusField(ctx[a].reference_coordinates, ctx[a].uh)
        /\ ( /\ LogEndsWith(<< <<"enter", a>>, <<"enter", b>>, <<"exit", b>>, <<"exit", a>> >>)
             /\ ctx[a].reset_reference
             /\ ctx[b].reset_reference )
           => x = ctx[a].reference_coordinates

\* an inner scope has been left and the mesh is back at the outer scope's
\* deformed coordinates, which are neither the original nor the inner ones
InnerScopeLeft ==
    \E a, b \in Contexts :
        /\ log = << <<"enter", a>>, <<"enter", b>>, <<"exit", b>> >>
        /\ ctx[a].is_deformation /\ ctx[b].is_deformation
        /\ ctx[b].reset_reference
        /\ ctx[a].uh # ZeroField /\ ctx[b].uh # ZeroField
        /\ x # ctx[a].reference_coordinates

----------------------------------------------------------------------------
(* C9 *)

\* C9: when the scopes' lifetimes are sequential or properly nested, every
\* scope with reset_reference=True restores its own entry snapshot at exit, and
\* when every scope has reset_reference=True the mesh is back at the coordinates
\* it had before the first entry once all scopes have exited; two scopes that
\* overlap without nesting can leave it elsewhere.
SerializedScopesRestore ==
    /\ ( /\ WellNested(log, <<>>)
         /\ last.op = "exit"
         /\ ctx[last.ctx].reset_reference )
           => x = ctx[last.ctx].reference_coordinates
    /\ ( /\ log # <<>>
         /\ WellNested(log, <<>>)
         /\ \A c \in Contexts : ctx[c].state # "Deformed"
         /\ \A c \in Contexts : ctx[c].state = "Exited" => ctx[c].reset_reference )
           => x = ctx[log[1][2]].reference_coordinates

\* enter a, enter b, exit a, exit b with reset_reference=True in both: the mesh
\* is not where it was before a was entered
OverlapLosesReference ==
    \E a, b \in Contexts :
        /\ log = << <<"enter", a>>, <<"enter", b>>, <<"exit", a>>, <<"exit", b>> >>
        /\ ctx[a].reset_reference /\ ctx[b].reset_reference
        /\ x # ctx[a].reference_coordinates

\* the nested order, for comparison: the same two scopes left inner first
NestedKeepsReference ==
    \E a, b \in Contexts :
        /\ log = << <<"enter", a>>, <<"enter", b>>, <<"exit", b>>, <<"exit", a>> >>
        /\ ctx[a].reset_reference /\ ctx[b].reset_reference
        /\ ctx[a].uh # ZeroField /\ ctx[b].uh # ZeroField
        /\ x = ctx[a].reference_coordinates

----------------------------------------------------------------------------
(* C10 *)

\* C10: Dirichlet conditions are built for the listed markers only: a boundary
\* node whose marker is not listed is in no condition, its row of the solved
\* system is the zero-Neumann one, and its displacement is what the solve gives.
UnlistedBoundaryIsFree ==
    (last.op = "enter" /\ last.outcome = "ok")
        => \A n \in UnlistedBoundaryNodes :
              /\ n \notin Constrained(last.bc_list)
              /\ last.ksp_reason = "converged"
                    => ctx[last.ctx].uh[n] = ctx[last.ctx].uh[Neighbour(n)]

\* an unlisted boundary node that the solve has moved
UnlistedBoundaryMoved ==
    /\ last.op = "enter"
    /\ last.outcome = "ok"
    /\ last.ksp_reason = "converged"
    /\ \E n \in UnlistedBoundaryNodes : ctx[last.ctx].uh[n] # 0 /\ x[n] # last.pre[n]

====
